---- MODULE Spec2Model ----
(***************************************************************************)
(* A model of the STOMP frame codec of src/frame/mod.rs: Command, Header,  *)
(* Body (the streaming body reader) and Frame (read_from, write_to, Drop). *)
(* Bytes are their numeric values; a string is a sequence of bytes.        *)
(***************************************************************************)
EXTENDS Integers, Sequences, FiniteSets, TLC

VARIABLES
    data,       \* the content of the underlying stream (the reader's bytes, runs folded)
    pos,        \* number of bytes consumed from the underlying stream
    cap,        \* buffer capacity of the underlying BufRead (0: a Cursor)
    mode,       \* constructor of the Body: "none", "scan" (Body::new), "length" (Body::with_length)
    limit,      \* Body.limit
    done,       \* Body.done
    out,        \* bytes returned by Body::read so far, concatenated
    eos,        \* some Body::read call with a non-empty buffer has returned 0
    lastRet,    \* value returned by the last Body::read call (-1: none yet)
    phase,      \* "idle", "open" (a Frame is alive), "dropped", "failed", "panicked"
    command,    \* Frame.command ("" when none)
    header,     \* Frame.header / the Header under construction: key -> sequence of values
    err,        \* the ReadError returned by the last read_from (NoError when none)
    frameStart, \* value of pos when the last Frame::read_from was called
    bodyStart,  \* value of pos when the Body was constructed
    given,      \* the content-length argument of Body::with_length (0 for Body::new)
    sink,       \* bytes received by the writer w
    ret,        \* value returned by write_to (-1: none yet)
    wpc,        \* position inside Frame::write_to
    sent        \* the command, header and body source of the frame handed to write_to

streamVars == <<data, pos, cap>>
bodyVars == <<mode, limit, done, out, eos, lastRet, bodyStart, given>>
frameVars == <<phase, command, header, err, frameStart>>
writeVars == <<sink, ret, wpc, sent>>
vars == <<data, pos, cap, mode, limit, done, out, eos, lastRet, phase, command,
          header, err, frameStart, bodyStart, given, sink, ret, wpc, sent>>

----------------------------------------------------------------------------
(* Bounds of the model *)

MaxSrc == 4         \* longest body source of SpecBody
MaxCap == 3         \* largest buffer capacity of the underlying BufRead
MaxBuf == 3         \* largest caller buffer handed to Body::read
MaxLen == 3         \* largest content_length handed to Body::with_length

----------------------------------------------------------------------------
(* Bytes *)

NULL == 0           \* const NULL: u8 = b'\0'
EOL == 10           \* const EOL: u8 = b'\n'
ByteA == 97         \* 'a', a body byte
ByteB == 98         \* 'b', a body byte

Min(a, b) == IF a <= b THEN a ELSE b

SetMin(S) == CHOOSE x \in S : \A y \in S : x <= y

\* memchr::memchr(b, s), 1-based: the first index of b in s, 0 for None
Memchr(b, s) ==
    LET I == {i \in 1..Len(s) : s[i] = b}
    IN  IF I = {} THEN 0 ELSE SetMin(I)

\* all sequences over S of length at most n
SeqsUpTo(S, n) == UNION {[1..k -> S] : k \in 0..n}

NoError == [kind |-> "none", msg |-> ""]
NoFrame == [command |-> "", header |-> << >>, body |-> << >>]

----------------------------------------------------------------------------
(* Strings *)

CR == 13            \* '\r'
SPACE == 32         \* ' '
COMMA == 44         \* ','
COLON == 58         \* ':'
BACKSLASH == 92     \* '\\'
LetterC == 99       \* 'c'
LetterN == 110      \* 'n'
LetterR == 114      \* 'r'
ByteX == 120        \* 'x', a header value byte
ByteBad == 255      \* a byte that is never part of valid UTF-8

\* The content of a stream is written with its long runs of filler folded: an
\* element -k of data stands for k bytes 'x'. Expand unfolds them.
RECURSIVE Expand(_)
Expand(s) ==
    LET I == {i \in 1..Len(s) : s[i] < 0}
    IN  IF I = {} THEN s
        ELSE SubSeq(s, 1, SetMin(I) - 1)
             \o [j \in 1..(0 - s[SetMin(I)]) |-> ByteX]
             \o Expand(SubSeq(s, SetMin(I) + 1, Len(s)))

\* the bytes of the underlying stream
Stream == Expand(data)

\* string::encode: backslash, newline, carriage return and colon are escaped
RECURSIVE Encode(_)
Encode(s) ==
    IF s = << >> THEN << >>
    ELSE LET h == Head(s)
             e == IF h = BACKSLASH THEN <<BACKSLASH, BACKSLASH>>
                  ELSE IF h = EOL THEN <<BACKSLASH, LetterN>>
                  ELSE IF h = CR THEN <<BACKSLASH, LetterR>>
                  ELSE IF h = COLON THEN <<BACKSLASH, LetterC>>
                  ELSE <<h>>
         IN  e \o Encode(Tail(s))

\* string::decode: the single-pass inverse; an unrecognized escape sequence
\* is passed through unmodified
RECURSIVE Decode(_)
Decode(s) ==
    IF s = << >> THEN << >>
    ELSE IF s[1] = BACKSLASH /\ Len(s) >= 2
    THEN LET d == IF s[2] = BACKSLASH THEN <<BACKSLASH>>
                  ELSE IF s[2] = LetterN THEN <<EOL>>
                  ELSE IF s[2] = LetterR THEN <<CR>>
                  ELSE IF s[2] = LetterC THEN <<COLON>>
                  ELSE <<s[1], s[2]>>
         IN  d \o Decode(SubSeq(s, 3, Len(s)))
    ELSE <<s[1]>> \o Decode(Tail(s))

\* Ord for String: byte-wise lexicographic order, a strictly before b
RECURSIVE LexLess(_, _)
LexLess(a, b) ==
    IF b = << >> THEN FALSE
    ELSE IF a = << >> THEN TRUE
    ELSE IF a[1] # b[1] THEN a[1] < b[1]
    ELSE LexLess(Tail(a), Tail(b))

\* [String]::join(sep)
RECURSIVE Join(_, _)
Join(vs, sep) ==
    IF vs = << >> THEN << >>
    ELSE IF Len(vs) = 1 THEN vs[1]
    ELSE vs[1] \o <<sep>> \o Join(Tail(vs), sep)

----------------------------------------------------------------------------
(* Command *)

Commands ==
    {"Connect", "Stomp", "Connected", "Send", "Subscribe", "Unsubscribe", "Ack",
     "Nack", "Begin", "Commit", "Abort", "Disconnect", "Message", "Receipt", "Error"}

\* impl fmt::Display for Command: the canonical string of each variant
CommandToString(c) ==
    IF c = "Connect" THEN <<67, 79, 78, 78, 69, 67, 84>>                        \* "CONNECT"
    ELSE IF c = "Stomp" THEN <<83, 84, 79, 77, 80>>                             \* "STOMP"
    ELSE IF c = "Connected" THEN <<67, 79, 78, 78, 69, 67, 84, 69, 68>>         \* "CONNECTED"
    ELSE IF c = "Send" THEN <<83, 69, 78, 68>>                                  \* "SEND"
    ELSE IF c = "Subscribe" THEN <<83, 85, 66, 83, 67, 82, 73, 66, 69>>         \* "SUBSCRIBE"
    ELSE IF c = "Unsubscribe" THEN <<85, 78, 83, 85, 66, 83, 67, 82, 73, 66, 69>> \* "UNSUBSCRIBE"
    ELSE IF c = "Ack" THEN <<65, 67, 75>>                                       \* "ACK"
    ELSE IF c = "Nack" THEN <<78, 65, 67, 75>>                                  \* "NACK"
    ELSE IF c = "Begin" THEN <<66, 69, 71, 73, 78>>                             \* "BEGIN"
    ELSE IF c = "Commit" THEN <<67, 79, 77, 77, 73, 84>>                        \* "COMMIT"
    ELSE IF c = "Abort" THEN <<65, 66, 79, 82, 84>>                             \* "ABORT"
    ELSE IF c = "Disconnect" THEN <<68, 73, 83, 67, 79, 78, 78, 69, 67, 84>>    \* "DISCONNECT"
    ELSE IF c = "Message" THEN <<77, 69, 83, 83, 65, 71, 69>>                   \* "MESSAGE"
    ELSE IF c = "Receipt" THEN <<82, 69, 67, 69, 73, 80, 84>>                   \* "RECEIPT"
    ELSE <<69, 82, 82, 79, 82>>                                                 \* "ERROR"

\* str::to_ascii_lowercase
ToLower(s) == [i \in 1..Len(s) |-> IF s[i] \in 65..90 THEN s[i] + 32 ELSE s[i]]

\* str::to_ascii_uppercase
ToUpper(s) == [i \in 1..Len(s) |-> IF s[i] \in 97..122 THEN s[i] - 32 ELSE s[i]]

\* a parser that ignores the case of its argument
CommandFromStr_IgnoreCase(s) ==
    IF \E c \in Commands : CommandToString(c) = ToUpper(s)
    THEN [ok |-> TRUE, command |-> CHOOSE c \in Commands : CommandToString(c) = ToUpper(s)]
    ELSE [ok |-> FALSE, command |-> "invalid command"]

\* impl FromStr for Command: Ok(variant), or Err("invalid command")
CommandFromStr(s) ==
    IF s = <<67, 79, 78, 78, 69, 67, 84>> THEN [ok |-> TRUE, command |-> "Connect"]
    ELSE IF s = <<83, 84, 79, 77, 80>> THEN [ok |-> TRUE, command |-> "Stomp"]
    ELSE IF s = <<67, 79, 78, 78, 69, 67, 84, 69, 68>> THEN [ok |-> TRUE, command |-> "Connected"]
    ELSE IF s = <<83, 69, 78, 68>> THEN [ok |-> TRUE, command |-> "Send"]
    ELSE IF s = <<83, 85, 66, 83, 67, 82, 73, 66, 69>> THEN [ok |-> TRUE, command |-> "Subscribe"]
    ELSE IF s = <<85, 78, 83, 85, 66, 83, 67, 82, 73, 66, 69>> THEN [ok |-> TRUE, command |-> "Unsubscribe"]
    ELSE IF s = <<65, 67, 75>> THEN [ok |-> TRUE, command |-> "Ack"]
    ELSE IF s = <<78, 65, 67, 75>> THEN [ok |-> TRUE, command |-> "Nack"]
    ELSE IF s = <<66, 69, 71, 73, 78>> THEN [ok |-> TRUE, command |-> "Begin"]
    ELSE IF s = <<67, 79, 77, 77, 73, 84>> THEN [ok |-> TRUE, command |-> "Commit"]
    ELSE IF s = <<65, 66, 79, 82, 84>> THEN [ok |-> TRUE, command |-> "Abort"]
    ELSE IF s = <<68, 73, 83, 67, 79, 78, 78, 69, 67, 84>> THEN [ok |-> TRUE, command |-> "Disconnect"]
    ELSE IF s = <<77, 69, 83, 83, 65, 71, 69>> THEN [ok |-> TRUE, command |-> "Message"]
    ELSE IF s = <<82, 69, 67, 69, 73, 80, 84>> THEN [ok |-> TRUE, command |-> "Receipt"]
    ELSE IF s = <<69, 82, 82, 79, 82>> THEN [ok |-> TRUE, command |-> "Error"]
    ELSE [ok |-> FALSE, command |-> "invalid command"]

----------------------------------------------------------------------------
(* Header: fields is a BTreeMap<String, Vec<String>>, a function from the   *)
(* keys present to their value lists                                        *)

\* Header::new
HeaderNew == << >>

\* Header::get_field: Some(values) or None
GetField(h, key) ==
    IF key \in DOMAIN h THEN [some |-> TRUE, values |-> h[key]]
    ELSE [some |-> FALSE, values |-> << >>]

\* Header::add_field
AddFieldOp(h, key, value) ==
    [k \in (DOMAIN h) \cup {key} |->
        IF k = key
        THEN (IF key \in DOMAIN h THEN h[key] ELSE << >>) \o <<value>>
        ELSE h[k]]

\* Header::set_field
SetFieldOp(h, key, values) ==
    [k \in (DOMAIN h) \cup {key} |-> IF k = key THEN values ELSE h[k]]

\* Header::remove_field
RemoveFieldOp(h, key) == [k \in (DOMAIN h) \ {key} |-> h[k]]

\* a map that iterates in descending order of key
RECURSIVE KeysInOrder_Descending(_)
KeysInOrder_Descending(S) ==
    IF S = {} THEN << >>
    ELSE LET k == CHOOSE x \in S : \A y \in S \ {x} : LexLess(y, x)
         IN  <<k>> \o KeysInOrder_Descending(S \ {k})

\* BTreeMap::iter: the keys in ascending order
RECURSIVE KeysInOrder(_)
KeysInOrder(S) ==
    IF S = {} THEN << >>
    ELSE LET k == CHOOSE x \in S : \A y \in S \ {x} : LexLess(x, y)
         IN  <<k>> \o KeysInOrder(S \ {k})

\* format!("{}: {}\n", string::encode(k), string::encode(&v.join(",")))
FieldStr(k, v) == Encode(k) \o <<COLON, SPACE>> \o Encode(Join(v, COMMA)) \o <<EOL>>

\* Header::write_to over a writer that accepts every byte handed to it:
\* the bytes written and the count returned
RECURSIVE WriteFields(_, _, _)
WriteFields(h, ks, acc) ==
    IF ks = << >> THEN acc
    ELSE LET field_str == FieldStr(ks[1], h[ks[1]])
             size == Len(field_str)
         IN  WriteFields(h, Tail(ks),
                 [bytes |-> acc.bytes \o field_str,
                  bytes_written |-> acc.bytes_written + size])

HeaderWriteOp(h) ==
    WriteFields(h, KeysInOrder(DOMAIN h), [bytes |-> << >>, bytes_written |-> 0])

----------------------------------------------------------------------------
(* The underlying reader, inner: &mut dyn BufRead *)

\* BufRead::fill_buf: the bytes currently buffered. A Cursor (c = 0) exposes
\* the whole rest of the slice; a buffered reader of capacity c refills, when
\* its buffer is empty, with the next c bytes.
FillBuf(d, p, c) ==
    IF c = 0 THEN SubSeq(d, p + 1, Len(d))
    ELSE SubSeq(d, p + 1, Min(Len(d), ((p \div c) + 1) * c))

\* Read::read into a buffer of n bytes: the number of bytes delivered
InnerRead(d, p, c, n) == Min(n, Len(FillBuf(d, p, c)))

----------------------------------------------------------------------------
(* Body *)

\* Body::read(buf) with buf.len() = n: the new Body fields, the new cursor
\* of the underlying stream, and the bytes put into buf.
BodyReadScan(d, p, c, n) ==
    LET available == FillBuf(d, p, c)
        i == Memchr(NULL, available)
    IN  IF i > 0
        THEN LET used == Min(i - 1, n) + 1
             IN  [done |-> TRUE, pos |-> p + used, got |-> SubSeq(available, 1, used - 1)]
        ELSE LET used == Min(Len(available), n)
             IN  [done |-> FALSE, pos |-> p + used, got |-> SubSeq(available, 1, used)]

\* a read that does not look at done
BodyReadOp_IgnoresDone(d, p, c, lim, dn, n) ==
    IF lim > 0
    THEN LET max == Min(n, lim)
             read == InnerRead(d, p, c, max)
         IN  [limit |-> lim - read, done |-> dn, pos |-> p + read,
              got |-> SubSeq(d, p + 1, p + read)]
    ELSE LET r == BodyReadScan(d, p, c, n)
         IN  [limit |-> lim, done |-> r.done, pos |-> r.pos, got |-> r.got]

BodyReadOp(d, p, c, lim, dn, n) ==
    IF dn
    THEN [limit |-> lim, done |-> dn, pos |-> p, got |-> << >>]
    ELSE IF lim > 0
    THEN LET max == Min(n, lim)
             read == InnerRead(d, p, c, max)
         IN  [limit |-> lim - read, done |-> dn, pos |-> p + read,
              got |-> SubSeq(d, p + 1, p + read)]
    ELSE LET r == BodyReadScan(d, p, c, n)
         IN  [limit |-> lim, done |-> r.done, pos |-> r.pos, got |-> r.got]

\* impl Read for Body: one call of read with a buffer of n bytes
BodyRead(n) ==
    /\ phase = "open"
    /\ LET r == BodyReadOp(Stream, pos, cap, limit, done, n)
       IN  /\ limit' = r.limit
           /\ done' = r.done
           /\ pos' = r.pos
           /\ out' = out \o r.got
           /\ lastRet' = Len(r.got)
           /\ eos' = (eos \/ Len(r.got) = 0)
    /\ UNCHANGED <<data, cap, mode, bodyStart, given, frameVars, writeVars>>

\* Body::close: stdio::copy(&mut self.inner, &mut sink()) reads the
\* underlying reader until it reports end of input.
CloseOp(d, p) == Len(d)

\* impl Drop for Frame: self.body.close().unwrap()
DropFrame ==
    /\ phase = "open"
    /\ pos' = CloseOp(Stream, pos)
    /\ phase' = "dropped"
    /\ UNCHANGED <<data, cap, bodyVars, command, header, err, frameStart, writeVars>>

----------------------------------------------------------------------------
(* Reading: the line readers, Header::read_from, Frame::read_from *)

MAX_COMMAND_SIZE == 1024
MAX_HEADER_SIZE == 1024 * 1000

FormatError(m) == [kind |-> "Format", msg |-> m]
Utf8Error == [kind |-> "Utf8", msg |-> ""]
SizeExceeded == [kind |-> "SizeExceeded", msg |-> ""]

\* str::from_utf8 succeeds: over the bytes of the model, ASCII is valid and
\* ByteBad is not
IsUtf8(s) == \A i \in 1..Len(s) : s[i] < 128

\* char::is_whitespace over ASCII: tab, LF, VT, FF, CR, space
IsWhitespace(b) == b \in {9, 10, 11, 12, 13, 32}

\* str::trim_start
TrimStart(s) ==
    LET I == {i \in 1..Len(s) : ~IsWhitespace(s[i])}
    IN  IF I = {} THEN << >> ELSE SubSeq(s, SetMin(I), Len(s))

\* str::trim_end
TrimEnd(s) ==
    LET I == {i \in 1..(Len(s) + 1) : \A j \in i..Len(s) : IsWhitespace(s[j])}
    IN  SubSeq(s, 1, SetMin(I) - 1)

\* str::trim
Trim(s) == TrimEnd(TrimStart(s))

\* str::trim_end_matches(ch)
TrimEndMatches(s, ch) ==
    LET I == {i \in 1..(Len(s) + 1) : \A j \in i..Len(s) : s[j] = ch}
    IN  SubSeq(s, 1, SetMin(I) - 1)

\* str::split(ch).collect(): the parts between the occurrences of ch;
\* i is the index of the first ch in s, 0 when there is none
RECURSIVE SplitAt(_, _, _)
SplitAt(s, ch, i) ==
    IF i = 0 THEN <<s>>
    ELSE <<SubSeq(s, 1, i - 1)>>
         \o SplitAt(SubSeq(s, i + 1, Len(s)), ch, Memchr(ch, SubSeq(s, i + 1, Len(s))))

Split(s, ch) == SplitAt(s, ch, Memchr(ch, s))

\* the line cut out of the bytes avail, i being the index of the delimiter
CutLine(avail, i) ==
    IF i > 0
    THEN [line |-> SubSeq(avail, 1, i - 1), used |-> i, found |-> TRUE]
    ELSE [line |-> avail, used |-> Len(avail), found |-> FALSE]

DelimitedOver(avail) == CutLine(avail, Memchr(EOL, avail))

\* Read::read_to_end of DelimitedReader::new(source, EOL) over a source that
\* ends after `room` more bytes (std::io::Take reports end of input there):
\* the bytes before the delimiter, and the number of bytes consumed, the
\* delimiter included.
DelimitedRead(d, p, room) == DelimitedOver(SubSeq(d, p + 1, Min(Len(d), p + room)))

WithBudget(r, more) ==
    [line |-> r.line, used |-> r.used, found |-> r.found, exceeded |-> (~r.found /\ more)]

\* The same over io::LimitedReader with `room` bytes of budget left: the read
\* fails when the line needs a byte beyond the budget.
LimitedDelimitedRead(d, p, room) == WithBudget(DelimitedRead(d, p, room), Len(d) - p > room)

HeaderErr(e, p) == [ok |-> FALSE, header |-> HeaderNew, err |-> e, pos |-> p]

\* Header::read_from: the loop (lines 144-172) from the header h built so
\* far, with `room` bytes of budget left
RECURSIVE HeaderReadLoop(_, _, _, _)
RECURSIVE HeaderLine(_, _, _, _, _)
RECURSIVE HeaderParts(_, _, _, _, _)
RECURSIVE HeaderField(_, _, _, _, _, _)

\* lines 162-171: the decoded and trimmed name and value
HeaderField(d, p, room, h, clean_field_name, clean_field_value) ==
    IF clean_field_name = << >>
    THEN HeaderErr(FormatError("empty header field name"), p)
    ELSE HeaderReadLoop(d, p, room, AddFieldOp(h, clean_field_name, clean_field_value))

\* a parser that takes a line without colon as a name with an empty value
HeaderParts_ColonOptional(d, p, room, h, parts) ==
    HeaderField(d, p, room, h, Trim(Decode(parts[1])),
                IF Len(parts) < 2 THEN << >> ELSE TrimStart(Decode(parts[2])))

\* a parser that trims the value at both ends
HeaderParts_ValueTrimmed(d, p, room, h, parts) ==
    IF Len(parts) < 2
    THEN HeaderErr(FormatError("invalid number of header field parts. Expected 2, got 1"), p)
    ELSE HeaderField(d, p, room, h, Trim(Decode(parts[1])), Trim(Decode(parts[2])))

\* lines 154-166: the parts of the line split at ':'
HeaderParts(d, p, room, h, parts) ==
    IF Len(parts) < 2
    THEN HeaderErr(FormatError("invalid number of header field parts. Expected 2, got 1"), p)
    ELSE HeaderField(d, p, room, h, Trim(Decode(parts[1])), TrimStart(Decode(parts[2])))

\* a reader whose budget starts afresh at every line
HeaderLine_BudgetPerLine(d, p, room, h, r) ==
    IF r.exceeded THEN HeaderErr(SizeExceeded, p + r.used)
    ELSE IF Len(r.line) < 1
    THEN [ok |-> TRUE, header |-> h, err |-> NoError, pos |-> p + r.used]
    ELSE IF ~IsUtf8(r.line) THEN HeaderErr(Utf8Error, p + r.used)
    ELSE HeaderParts(d, p + r.used, MAX_HEADER_SIZE, h,
                     Split(TrimEndMatches(r.line, CR), COLON))

\* lines 147-154: the line r read by the delimited reader
HeaderLine(d, p, room, h, r) ==
    IF r.exceeded THEN HeaderErr(SizeExceeded, p + r.used)
    ELSE IF Len(r.line) < 1
    THEN [ok |-> TRUE, header |-> h, err |-> NoError, pos |-> p + r.used]
    ELSE IF ~IsUtf8(r.line) THEN HeaderErr(Utf8Error, p + r.used)
    ELSE HeaderParts(d, p + r.used, room - r.used, h,
                     Split(TrimEndMatches(r.line, CR), COLON))

HeaderReadLoop(d, p, room, h) == HeaderLine(d, p, room, h, LimitedDelimitedRead(d, p, room))

\* Header::read_from
HeaderReadFrom(d, p) == HeaderReadLoop(d, p, MAX_HEADER_SIZE, HeaderNew)

CommandErr(e, p) == [ok |-> FALSE, command |-> "", err |-> e, pos |-> p]

\* line 286: Command::from_str(clean_string_command).map_err(ReadError::Format)
CommandParsed(c, p) ==
    IF c.ok THEN [ok |-> TRUE, command |-> c.command, err |-> NoError, pos |-> p]
    ELSE CommandErr(FormatError(c.command), p)

\* lines 281-286
CommandClean(clean_string_command, p) ==
    IF clean_string_command = << >>
    THEN CommandErr(FormatError("empty command"), p)
    ELSE CommandParsed(CommandFromStr(clean_string_command), p)

\* lines 275-281: the line r read by the delimited reader
CommandLine(r, p) ==
    IF Len(r.line) < 1 THEN CommandErr(FormatError("empty command"), p + r.used)
    ELSE IF ~IsUtf8(r.line) THEN CommandErr(Utf8Error, p + r.used)
    ELSE CommandClean(Trim(r.line), p + r.used)

\* Frame::read_command: the line is read through r.take(MAX_COMMAND_SIZE)
ReadCommand(d, p) == CommandLine(DelimitedRead(d, p, MAX_COMMAND_SIZE), p)

IsDigit(b) == b \in 48..57

\* the decimal digits of u64::MAX, 18446744073709551615
U64MaxDigits == <<49, 56, 52, 52, 54, 55, 52, 52, 48, 55, 51, 55, 48, 57, 53, 53, 49, 54, 49, 53>>

RECURSIVE StripZeros(_)
StripZeros(s) == IF Len(s) > 1 /\ s[1] = 48 THEN StripZeros(Tail(s)) ELSE s

RECURSIVE DigitsValue(_, _)
DigitsValue(s, acc) ==
    IF s = << >> THEN acc ELSE DigitsValue(Tail(s), acc * 10 + (s[1] - 48))

\* the value of the significant digits sig, at most u64::MAX; the value is
\* computed for numbers of up to nine digits
InRangeU64(sig) ==
    IF Len(sig) > Len(U64MaxDigits)
       \/ (Len(sig) = Len(U64MaxDigits) /\ LexLess(U64MaxDigits, sig))
    THEN [ok |-> FALSE, value |-> 0]
    ELSE [ok |-> TRUE, value |-> IF Len(sig) <= 9 THEN DigitsValue(sig, 0) ELSE 999999999]

ParseDigits(digits) ==
    IF digits = << >> \/ \E i \in 1..Len(digits) : ~IsDigit(digits[i])
    THEN [ok |-> FALSE, value |-> 0]
    ELSE InRangeU64(StripZeros(digits))

\* str::parse::<u64>: an optional '+', then one or more digits, the value at
\* most u64::MAX
ParseU64(s) == ParseDigits(IF s # << >> /\ s[1] = 43 THEN Tail(s) ELSE s)

ContentLength == <<67, 111, 110, 116, 101, 110, 116, 45, 76, 101, 110, 103, 116, 104>>

NoFrameRead(outcome, e, p) ==
    [outcome |-> outcome, err |-> e, pos |-> p, command |-> "",
     header |-> HeaderNew, mode |-> "none", limit |-> 0]

\* a reader that returns a Format error when Content-Length does not parse
FrameWithBody_ParseErrorReturned(c, h, has, n) ==
    IF ~n.ok THEN NoFrameRead("error", FormatError("invalid Content-Length"), h.pos)
    ELSE [outcome |-> "frame", err |-> NoError, pos |-> h.pos,
          command |-> c.command, header |-> h.header,
          mode |-> IF has THEN "length" ELSE "scan", limit |-> n.value]

\* lines 298-303: n is clen parsed, has tells whether clen is Some
FrameWithBody(c, h, has, n) ==
    IF ~n.ok THEN NoFrameRead("panic", NoError, h.pos)
    ELSE [outcome |-> "frame", err |-> NoError, pos |-> h.pos,
          command |-> c.command, header |-> h.header,
          mode |-> IF has THEN "length" ELSE "scan", limit |-> n.value]

\* a reader that takes the last Content-Length value
FrameClen_LastValue(c, h, f) ==
    IF f.some /\ f.values # << >>
    THEN FrameWithBody(c, h, TRUE, ParseU64(f.values[Len(f.values)]))
    ELSE FrameWithBody(c, h, FALSE, [ok |-> TRUE, value |-> 0])

\* lines 293-296: f is header.get_field("Content-Length")
FrameClen(c, h, f) ==
    IF f.some /\ f.values # << >>
    THEN FrameWithBody(c, h, TRUE, ParseU64(f.values[1]))
    ELSE FrameWithBody(c, h, FALSE, [ok |-> TRUE, value |-> 0])

\* line 291 on: h is the result of Header::read_from
FrameAfterHeader(c, h) ==
    IF ~h.ok THEN NoFrameRead("error", h.err, h.pos)
    ELSE FrameClen(c, h, GetField(h.header, ContentLength))

\* line 290 on: c is the result of Frame::read_command
FrameAfterCommand(d, c) ==
    IF ~c.ok THEN NoFrameRead("error", c.err, c.pos)
    ELSE FrameAfterHeader(c, HeaderReadFrom(d, c.pos))

\* Frame::read_from: the outcome ("frame", "error" or "panic"), the parts of
\* the Frame, and the stream cursor it leaves
FrameReadFrom(d, p) == FrameAfterCommand(d, ReadCommand(d, p))

----------------------------------------------------------------------------
(* Spec: frames are read from a stream with Frame::read_from, their bodies  *)
(* read with Body::read, and the frames dropped                             *)

MaxLines == 2       \* most header lines of a generated header block
MaxOver == 2        \* most bytes by which a generated command line exceeds MAX_COMMAND_SIZE

Lf == <<EOL>>
CrLf == <<CR, EOL>>

RECURSIVE WireLines(_, _)
WireLines(lines, eol) ==
    IF lines = << >> THEN << >> ELSE lines[1] \o eol \o WireLines(Tail(lines), eol)

\* the wire form of a frame: command line, header lines, blank line, body, NUL
Wire(f, eol) == f.cmd \o eol \o WireLines(f.lines, eol) \o eol \o f.body \o <<NULL>>

\* "Content-Length:<n>" for one digit n
ClenLine(n) == ContentLength \o <<COLON, 48 + n>>

\* well-formed frames: with and without Content-Length, with an empty body,
\* and with a NUL inside a body of declared length
GoodFrames ==
    {[cmd |-> CommandToString("Send"), lines |-> << >>, body |-> <<ByteA, ByteB>>],
     [cmd |-> CommandToString("Ack"), lines |-> <<(<<ByteB, COLON, ByteX>>)>>, body |-> << >>],
     [cmd |-> CommandToString("Send"), lines |-> <<ClenLine(2)>>, body |-> <<ByteA, NULL>>],
     [cmd |-> CommandToString("Message"), lines |-> <<ClenLine(0)>>, body |-> << >>]}

\* two well-formed frames back to back
TwoFrameStreams == {Wire(f, Lf) \o Wire(g, Lf) : f, g \in GoodFrames}

\* one well-formed frame whose lines all end with CR LF
CrLfStreams == {Wire(f, CrLf) : f \in GoodFrames}

\* the same frame with bare LF line endings
LfTwin(d) == CHOOSE t \in {Wire(f, Lf) : f \in GoodFrames} :
                \E f \in GoodFrames : d = Wire(f, CrLf) /\ t = Wire(f, Lf)

\* header lines: "b:x", "b", ":x", " \r:x" (the CR escaped), an invalid byte,
\* an invalid byte before ":x"
HeaderLines ==
    {<<ByteB, COLON, ByteX>>,
     <<ByteB>>,
     <<COLON, ByteX>>,
     <<SPACE, BACKSLASH, LetterR, COLON, ByteX>>,
     <<ByteBad>>,
     <<ByteBad, COLON, ByteX>>}

\* a frame whose header block holds any of these lines
HeaderStreams ==
    {Wire([cmd |-> CommandToString("Send"), lines |-> ls, body |-> <<ByteA>>], Lf) :
        ls \in SeqsUpTo(HeaderLines, MaxLines) \ {<< >>}}

\* a frame whose command line is "SEND", padding, and possibly "b:x", of
\* MAX_COMMAND_SIZE - 1 to MAX_COMMAND_SIZE + MaxOver bytes before the LF
LongCommandStreams ==
    {Wire([cmd |-> CommandToString("Send") \o [i \in 1..n |-> b] \o t,
           lines |-> << >>, body |-> <<ByteA>>], Lf) :
        n \in (MAX_COMMAND_SIZE - 5)..(MAX_COMMAND_SIZE - 4 + MaxOver),
        b \in {SPACE, ByteX},
        t \in {<< >>, <<ByteB, COLON, ByteX>>}}

\* input that ends inside the command/header section: "SEND", "SEND\n",
\* "SEND\nb:x" and "SEND\nb:x\n", with no blank line and no body
TruncatedStreams ==
    {CommandToString("Send"),
     CommandToString("Send") \o Lf,
     CommandToString("Send") \o Lf \o <<ByteB, COLON, ByteX>>,
     CommandToString("Send") \o Lf \o <<ByteB, COLON, ByteX>> \o Lf}

\* header lines "Content-Length:1", "Content-Length:2", "b:x" and
\* "content-length:1"
ClenLines ==
    {ClenLine(1), ClenLine(2), <<ByteB, COLON, ByteX>>, ToLower(ContentLength) \o <<COLON, 49>>}

\* a frame with up to MaxLines of these lines and the body "ab"
ClenStreams ==
    {Wire([cmd |-> CommandToString("Send"), lines |-> ls, body |-> <<ByteA, ByteB>>], Lf) :
        ls \in SeqsUpTo(ClenLines, MaxLines)}

\* Content-Length values that are no u64: "", "-1", "x", "1 ", u64::MAX + 1
BadClenValues ==
    {<< >>, <<45, 49>>, <<ByteX>>, <<49, SPACE>>,
     SubSeq(U64MaxDigits, 1, Len(U64MaxDigits) - 1) \o <<54>>}

\* Content-Length values at the edge of what str::parse::<u64> accepts:
\* "+1", " 1" (the reader trims leading whitespace), "01", u64::MAX
EdgeClenValues == {<<43, 49>>, <<SPACE, 49>>, <<48, 49>>, U64MaxDigits}

\* a frame whose first Content-Length line carries one of these values, alone,
\* after the line "b:x", or before the line "Content-Length:1"
ClenValueStreams ==
    {Wire([cmd |-> CommandToString("Send"),
           lines |-> before \o <<ContentLength \o <<COLON>> \o v>> \o after,
           body |-> <<ByteA, ByteB>>], Lf) :
        v \in BadClenValues \cup EdgeClenValues,
        before \in {<< >>, <<(<<ByteB, COLON, ByteX>>)>>},
        after \in {<< >>, <<ClenLine(1)>>}}

\* a frame whose command line is "send", "SENDX", " SEND ", " " or ""
CommandLineStreams ==
    {Wire([cmd |-> c, lines |-> << >>, body |-> <<ByteA>>], Lf) :
        c \in {ToLower(CommandToString("Send")),
               CommandToString("Send") \o <<ByteX - 32>>,
               <<SPACE>> \o CommandToString("Send") \o <<SPACE>>,
               <<SPACE>>,
               << >>}}

\* header lines with one colon and white space around the name and the
\* value: "b:x ", "b: x", " b :x", "b:x \r", "b:x\r\r", "a\c:\rx" (the colon
\* and the CR escaped)
OneColonLines ==
    {<<ByteB, COLON, ByteX, SPACE>>,
     <<ByteB, COLON, SPACE, ByteX>>,
     <<SPACE, ByteB, SPACE, COLON, ByteX>>,
     <<ByteB, COLON, ByteX, SPACE, CR>>,
     <<ByteB, COLON, ByteX, CR, CR>>,
     <<ByteA, BACKSLASH, LetterC, COLON, BACKSLASH, LetterR, ByteX>>}

\* a frame whose header block holds up to MaxLines of these lines
OneColonStreams ==
    {Wire([cmd |-> CommandToString("Send"), lines |-> ls, body |-> <<ByteA>>], Lf) :
        ls \in SeqsUpTo(OneColonLines, MaxLines) \ {<< >>}}

Streams ==
    TwoFrameStreams \cup CrLfStreams \cup HeaderStreams \cup LongCommandStreams
        \cup TruncatedStreams \cup ClenStreams \cup ClenValueStreams
        \cup CommandLineStreams \cup OneColonStreams

Init ==
    /\ data \in Streams
    /\ pos = 0
    /\ cap \in 0..MaxCap
    /\ mode = "none" /\ given = 0 /\ limit = 0 /\ done = FALSE
    /\ out = << >> /\ eos = FALSE /\ lastRet = -1 /\ bodyStart = 0
    /\ phase = "idle"
    /\ command = ""
    /\ header = HeaderNew
    /\ err = NoError
    /\ frameStart = 0
    /\ sink = << >>
    /\ ret = -1
    /\ wpc = "idle"
    /\ sent = NoFrame

\* the Frame, error or panic r of read_from takes effect
ReadFromResult(r) ==
    /\ pos' = r.pos
    /\ phase' = IF r.outcome = "frame" THEN "open"
                ELSE IF r.outcome = "error" THEN "failed" ELSE "panicked"
    /\ command' = r.command
    /\ header' = r.header
    /\ err' = r.err
    /\ mode' = r.mode
    /\ given' = r.limit
    /\ limit' = r.limit
    /\ bodyStart' = r.pos

\* a call of Frame::read_from(&mut reader) while no Frame borrows the reader
ReadFrom ==
    /\ phase \in {"idle", "dropped", "failed"}
    /\ frameStart' = pos
    /\ ReadFromResult(FrameReadFrom(Stream, pos))
    /\ done' = FALSE /\ out' = << >> /\ eos' = FALSE /\ lastRet' = -1
    /\ UNCHANGED <<data, cap, writeVars>>

Next ==
    \/ ReadFrom
    \/ \E n \in 1..MaxBuf : BodyRead(n)
    \/ DropFrame

Spec == Init /\ [][Next]_vars

\* the offset just after the terminating NUL of the frame last read
FrameEnd ==
    IF mode = "length" THEN bodyStart + given + 1
    ELSE bodyStart + Memchr(NULL, SubSeq(data, bodyStart + 1, Len(data)))

\* C1: on a stream of two well-formed frames, once the first Frame has been
\* dropped, whatever part of its body was read, the stream cursor is just
\* after that frame's NUL, and the next read_from returns the next frame.
C1_DropLeavesNextFrame ==
    data \in TwoFrameStreams
        => /\ (phase = "dropped" /\ frameStart = 0) => pos = FrameEnd
           /\ frameStart > 0 => phase \in {"open", "dropped"}

\* C5: when more than MAX_COMMAND_SIZE bytes precede the first newline,
\* read_from fails with a size-exceeded error and returns no Frame.
C5_LongCommandRejected ==
    (frameStart = 0 /\ phase # "idle" /\ Memchr(EOL, data) - 1 > MAX_COMMAND_SIZE)
        => phase = "failed" /\ err = SizeExceeded

\* what read_from left equals the result r of reading the stream t
C8_SameAs(t, r) ==
    /\ phase \in {"open", "dropped"}
    /\ command = r.command
    /\ header = r.header
    /\ mode = r.mode /\ given = r.limit
    /\ SubSeq(data, bodyStart + 1, Len(data)) = SubSeq(t, r.pos + 1, Len(t))

\* C8: a frame whose lines all end with CR LF parses to the same Command,
\* Header and body, and leaves the stream at the same relative position, as
\* the same frame with bare LF line endings.
C8_CrLfParsesAsLf ==
    (data \in CrLfStreams /\ frameStart = 0 /\ phase # "idle")
        => C8_SameAs(LfTwin(data), FrameReadFrom(LfTwin(data), 0))

\* the header lines of the first frame of the stream: the bytes after the
\* command line, cut at every LF
FirstHeaderLines == Split(SubSeq(data, Memchr(EOL, data) + 1, Len(data)), EOL)

\* the lines before the first zero-length line
BeforeBlank(lines) ==
    {i \in 1..Len(lines) : \A j \in 1..i : lines[j] # << >>}

\* a line with no colon, or whose name is empty once decoded and trimmed
BadHeaderLine(l) ==
    \/ Memchr(COLON, l) = 0
    \/ Trim(Decode(SubSeq(l, 1, Memchr(COLON, l) - 1))) = << >>

BadLines(lines) == {i \in BeforeBlank(lines) : BadHeaderLine(lines[i])}

RECURSIVE LinesLength(_, _)
LinesLength(lines, i) ==
    IF i = 0 THEN 0 ELSE Len(lines[i]) + 1 + LinesLength(lines, i - 1)

C7_FailsAt(lines, i) ==
    /\ phase = "failed"
    /\ err.kind = "Format"
    /\ pos = Memchr(EOL, data) + LinesLength(lines, i)

\* the first read_from of the stream has been made, its command line, LF
\* included, fits MAX_COMMAND_SIZE and parses, and a header line is malformed
C7_FirstRead ==
    /\ frameStart = 0
    /\ phase # "idle"
    /\ Memchr(EOL, data) \in 1..MAX_COMMAND_SIZE
    /\ ReadCommand(data, 0).ok
    /\ BadLines(FirstHeaderLines) # {}

\* C7 as stated: read_from returns a Format error at the first header line
\* before the blank line that has no colon or an empty name.
C7_MalformedHeaderIsFormatError ==
    C7_FirstRead => C7_FailsAt(FirstHeaderLines, SetMin(BadLines(FirstHeaderLines)))

C7_TextUpTo(lines, i) == \A j \in 1..i : IsUtf8(lines[j])

\* C7 amended: read_from returns a Format error at the first header line
\* before the blank line that has no colon or an empty name, when the lines
\* up to and including it are valid UTF-8.
C7_MalformedTextHeaderIsFormatError ==
    (C7_FirstRead /\ C7_TextUpTo(FirstHeaderLines, SetMin(BadLines(FirstHeaderLines))))
        => C7_FailsAt(FirstHeaderLines, SetMin(BadLines(FirstHeaderLines)))

\* C7 witness: the read failed at a second line, after a valid first one
C7_Witness ==
    /\ C7_FirstRead
    /\ SetMin(BadLines(FirstHeaderLines)) = 2
    /\ C7_TextUpTo(FirstHeaderLines, 2)
    /\ phase = "failed"
    /\ err = FormatError("empty header field name")

\* C12: once a Body::read has found the NUL (done), every later Body::read
\* on that Body returns 0, delivers nothing and leaves the stream cursor where
\* it was, whatever follows the NUL in the stream.
C12_DoneReadsNothing ==
    [][(phase = "open" /\ phase' = "open" /\ done)
          => (lastRet' = 0 /\ out' = out /\ pos' = pos /\ done')]_vars

\* over a Cursor holding two frames, the body "ab" of the first has been
\* returned by the read that found the NUL, a later read has returned 0, and
\* the second frame is still in the stream
C12_Witness ==
    /\ data \in TwoFrameStreams
    /\ cap = 0
    /\ phase = "open" /\ mode = "scan" /\ done
    /\ out = <<ByteA, ByteB>>
    /\ lastRet = 0
    /\ pos = FrameEnd /\ pos < Len(data)


\* C13: a Body of declared length N > 0 whose limit has reached 0 scans for
\* no NUL: every further Body::read returns 0 and leaves the stream cursor
\* where it was.
C13_NoScanAfterLength ==
    [][(phase = "open" /\ phase' = "open" /\ mode = "length" /\ given > 0 /\ limit = 0)
          => (lastRet' = 0 /\ pos' = pos)]_vars

\* C14: a Frame returned by read_from has consumed a zero-length line: the
\* bytes of its command/header section end with two line feeds.
C14_BlankLinePresent ==
    phase = "open"
        => /\ bodyStart - frameStart >= 2
           /\ data[bodyStart] = EOL
           /\ data[bodyStart - 1] = EOL

\* the offset of the first line feed that is followed by a line feed (the
\* end of the last line before the blank line), 0 when there is none
C15_BlankAt ==
    LET I == {i \in 1..(Len(data) - 1) : data[i] = EOL /\ data[i + 1] = EOL}
    IN  IF I = {} THEN 0 ELSE SetMin(I)

\* the header lines before the blank line whose name is Content-Length
C15_ClenLines ==
    {i \in BeforeBlank(FirstHeaderLines) :
        /\ Memchr(COLON, FirstHeaderLines[i]) > 0
        /\ Trim(Decode(SubSeq(FirstHeaderLines[i], 1, Memchr(COLON, FirstHeaderLines[i]) - 1)))
               = ContentLength}

\* the number written after the colon of the line l
C15_Value(l) == ParseU64(TrimStart(Decode(SubSeq(l, Memchr(COLON, l) + 1, Len(l))))).value

\* C15: the Frame read_from returned for the first frame of a stream has a
\* Body of declared length N, N being the value of the first Content-Length
\* line of the wire, when there is such a line, and a scan-bounded Body when
\* there is none; its Command is the one of the command line, and the stream
\* cursor was left just after the blank line, before the first body byte.
C15_BodyModeFromHeader ==
    (phase \in {"open", "dropped"} /\ frameStart = 0
     /\ Memchr(EOL, data) \in 1..MAX_COMMAND_SIZE /\ C15_BlankAt > 0)
        => /\ CommandToString(command) = Trim(SubSeq(data, 1, Memchr(EOL, data) - 1))
           /\ bodyStart = C15_BlankAt + 1
           /\ IF C15_ClenLines = {}
              THEN mode = "scan" /\ ContentLength \notin DOMAIN header
              ELSE /\ mode = "length"
                   /\ given = C15_Value(FirstHeaderLines[SetMin(C15_ClenLines)])

\* a frame with the lines "Content-Length:1" and "Content-Length:2", in this
\* order, has been read: N is 1
C15_Witness ==
    /\ phase = "open" /\ frameStart = 0
    /\ C15_ClenLines = {1, 2}
    /\ FirstHeaderLines[1] = ClenLine(1) /\ FirstHeaderLines[2] = ClenLine(2)
    /\ mode = "length" /\ given = 1
    /\ pos = bodyStart

\* the text after the colon of the line l, as read_from hands it to parse
C16_Text(l) == TrimStart(Decode(SubSeq(l, Memchr(COLON, l) + 1, Len(l))))

\* t is no unsigned integer of 64 bits: empty, with a minus sign, with a byte
\* that is neither a digit nor a leading plus sign before a digit, or with
\* digits that exceed u64::MAX
C16_NotU64(t) ==
    \/ t = << >>
    \/ t[1] = 45
    \/ \E i \in 1..Len(t) : ~IsDigit(t[i]) /\ ~(i = 1 /\ t[1] = 43 /\ Len(t) > 1)
    \/ ~InRangeU64(StripZeros(IF t[1] = 43 THEN Tail(t) ELSE t)).ok

\* the first frame of the stream has a command line and a header block that
\* parse, and the value of its first Content-Length line is no u64
C16_BadFirstClen ==
    /\ frameStart = 0
    /\ phase # "idle"
    /\ Memchr(EOL, data) \in 1..MAX_COMMAND_SIZE
    /\ ReadCommand(data, 0).ok
    /\ C15_BlankAt > 0
    /\ BadLines(FirstHeaderLines) = {}
    /\ C7_TextUpTo(FirstHeaderLines, Cardinality(BeforeBlank(FirstHeaderLines)))
    /\ C15_ClenLines # {}
    /\ C16_NotU64(C16_Text(FirstHeaderLines[SetMin(C15_ClenLines)]))

\* C16: when the value of the first Content-Length line is no valid unsigned
\* integer, read_from panics: it returns neither a Frame nor a ReadError, and
\* the stream cursor is just after the blank line.
C16_BadContentLengthPanics ==
    C16_BadFirstClen
        => /\ phase = "panicked"
           /\ err = NoError
           /\ pos = C15_BlankAt + 1

\* read_from has panicked on u64::MAX + 1 in a first Content-Length line that
\* stands before the line "Content-Length:1"
C16_Witness ==
    /\ C16_BadFirstClen
    /\ phase = "panicked"
    /\ FirstHeaderLines[1] = ContentLength \o <<COLON>>
                                 \o SubSeq(U64MaxDigits, 1, Len(U64MaxDigits) - 1) \o <<54>>
    /\ FirstHeaderLines[2] = ClenLine(1)

\* the bytes of the messages Frame::read_command puts in ReadError::Format:
\* "empty command" and "invalid command"
MessageBytes(m) ==
    IF m = "empty command"
    THEN <<101, 109, 112, 116, 121, 32, 99, 111, 109, 109, 97, 110, 100>>
    ELSE IF m = "invalid command"
    THEN <<105, 110, 118, 97, 108, 105, 100, 32, 99, 111, 109, 109, 97, 110, 100>>
    ELSE << >>

\* the string t occurs in the string s
Contains(s, t) ==
    \E i \in 0..(Len(s) - Len(t)) : SubSeq(s, i + 1, i + Len(t)) = t

\* the command line of the stream, trimmed
C17_Clean == Trim(SubSeq(data, 1, Memchr(EOL, data) - 1))

\* C17: read_from of a stream whose command line, once trimmed, is empty
\* fails with Format("empty command"); when the trimmed line is none of the
\* canonical strings it fails with a Format error whose message holds the
\* text of that line; in both cases no Command is returned.
C17_CommandErrorCarriesText ==
    (frameStart = 0 /\ phase # "idle" /\ Memchr(EOL, data) \in 1..MAX_COMMAND_SIZE
     /\ IsUtf8(C17_Clean) /\ ~CommandFromStr(C17_Clean).ok)
        => /\ phase = "failed" /\ command = ""
           /\ err.kind = "Format"
           /\ IF C17_Clean = << >> THEN err.msg = "empty command"
              ELSE Contains(MessageBytes(err.msg), C17_Clean)

\* the text s without its line-ending CR: without one CR at its end, or,
\* when all is set, without any of the CRs at its end
C18_StripCr(s, all) ==
    IF all THEN TrimEndMatches(s, CR)
    ELSE IF s # << >> /\ s[Len(s)] = CR THEN SubSeq(s, 1, Len(s) - 1) ELSE s

\* the name and the value the line l stands for
C18_Name(l) == Trim(Decode(SubSeq(l, 1, Memchr(COLON, l) - 1)))
C18_Value(l, all) ==
    TrimStart(Decode(C18_StripCr(SubSeq(l, Memchr(COLON, l) + 1, Len(l)), all)))

\* the values of the first n lines whose name is k, in wire order
RECURSIVE C18_ValuesOf(_, _, _, _)
C18_ValuesOf(lines, n, k, all) ==
    IF n = 0 THEN << >>
    ELSE C18_ValuesOf(lines, n - 1, k, all)
         \o (IF C18_Name(lines[n]) = k THEN <<C18_Value(lines[n], all)>> ELSE << >>)

\* the header is the one the first n lines stand for
C18_HeaderOf(lines, n, all) ==
    /\ DOMAIN header = {C18_Name(lines[i]) : i \in 1..n}
    /\ \A k \in DOMAIN header : header[k] = C18_ValuesOf(lines, n, k, all)

\* the first frame of the stream has been read, and every line of its header
\* block holds exactly one colon
C18_OneColonFrame ==
    /\ phase \in {"open", "dropped"}
    /\ frameStart = 0
    /\ Memchr(EOL, data) \in 1..MAX_COMMAND_SIZE
    /\ C15_BlankAt > 0
    /\ BeforeBlank(FirstHeaderLines) # {}
    /\ \A i \in BeforeBlank(FirstHeaderLines) :
           Cardinality({j \in 1..Len(FirstHeaderLines[i]) : FirstHeaderLines[i][j] = COLON}) = 1

\* C18 as stated: the name is the decoded text before the colon, trimmed; the
\* value is the decoded text after the colon, less the one CR that ends the
\* line, with leading white space removed and trailing white space kept;
\* values of a repeated name are listed in wire order.
C18_NameAndValue ==
    C18_OneColonFrame
        => C18_HeaderOf(FirstHeaderLines, Cardinality(BeforeBlank(FirstHeaderLines)), FALSE)

\* C18 amended: the same, the value being the decoded text after the colon
\* less every CR at the end of the line.
C18_NameAndValueLessTrailingCrs ==
    C18_OneColonFrame
        => C18_HeaderOf(FirstHeaderLines, Cardinality(BeforeBlank(FirstHeaderLines)), TRUE)

\* the lines "b:x " and "b: x" have been read: b has the values "x " and "x"
C18_Witness ==
    /\ C18_OneColonFrame
    /\ FirstHeaderLines[1] = <<ByteB, COLON, ByteX, SPACE>>
    /\ FirstHeaderLines[2] = <<ByteB, COLON, SPACE, ByteX>>
    /\ header[<<ByteB>>] = <<(<<ByteX, SPACE>>), (<<ByteX>>)>>

----------------------------------------------------------------------------
(* SpecBudget: frames whose header block is about MAX_HEADER_SIZE bytes     *)
(* long are read with Frame::read_from, their bodies read, and dropped      *)

\* a header line of n bytes, the LF included: "b:x:" and a run of n - 5
\* filler bytes, the bytes after the second colon being part of no field
BudgetLine(n) == <<ByteB, COLON, ByteX, COLON, 0 - (n - 5)>>

\* a frame whose header block is two lines and the blank line, of
\* MAX_HEADER_SIZE - 1 to MAX_HEADER_SIZE + MaxOver bytes together, each line
\* about half of that
BudgetStreams ==
    {Wire([cmd |-> CommandToString("Send"),
           lines |-> <<BudgetLine(MAX_HEADER_SIZE \div 2),
                       BudgetLine(t - 1 - (MAX_HEADER_SIZE \div 2))>>,
           body |-> <<ByteA, ByteB>>], Lf) :
        t \in (MAX_HEADER_SIZE - 1)..(MAX_HEADER_SIZE + MaxOver)}

InitBudget ==
    /\ data \in BudgetStreams
    /\ pos = 0
    /\ cap \in 0..MaxCap
    /\ mode = "none" /\ given = 0 /\ limit = 0 /\ done = FALSE
    /\ out = << >> /\ eos = FALSE /\ lastRet = -1 /\ bodyStart = 0
    /\ phase = "idle"
    /\ command = ""
    /\ header = HeaderNew
    /\ err = NoError
    /\ frameStart = 0
    /\ sink = << >>
    /\ ret = -1
    /\ wpc = "idle"
    /\ sent = NoFrame

NextBudget ==
    \/ ReadFrom
    \/ \E n \in 1..MaxBuf : BodyRead(n)
    \/ DropFrame

SpecBudget == InitBudget /\ [][NextBudget]_vars

\* the number of bytes the folded text s stands for
RECURSIVE C19_Size(_)
C19_Size(s) ==
    IF s = << >> THEN 0
    ELSE (IF s[1] < 0 THEN 0 - s[1] ELSE 1) + C19_Size(Tail(s))

\* the lines of the header block of the first frame, before the blank line
C19_Lines == [i \in BeforeBlank(FirstHeaderLines) |-> FirstHeaderLines[i]]

\* the number of bytes of the block: the lines, each with its LF, and the LF
\* of the blank line
RECURSIVE C19_BlockSize(_, _)
C19_BlockSize(lines, n) ==
    IF n = 0 THEN 1 ELSE C19_Size(lines[n]) + 1 + C19_BlockSize(lines, n - 1)

\* every line of the block, with its LF, is shorter than MAX_HEADER_SIZE
C19_ShortLines(lines) ==
    \A i \in DOMAIN lines : C19_Size(lines[i]) + 1 < MAX_HEADER_SIZE

\* read_from failed with the size-exceeded error, having consumed no more
\* than MAX_HEADER_SIZE bytes after the command line, when the block is
\* longer than MAX_HEADER_SIZE, and returned a Frame when it is not
C19_FailsIffOver(eol, size) ==
    IF size > MAX_HEADER_SIZE
    THEN /\ phase = "failed"
         /\ err = SizeExceeded
         /\ header = HeaderNew
         /\ pos <= eol + MAX_HEADER_SIZE
    ELSE phase \in {"open", "dropped"} /\ bodyStart = eol + size

\* C19: read_from of a frame whose header block is longer than
\* MAX_HEADER_SIZE fails with the size-exceeded error and no Header, although
\* no line of the block is as long as MAX_HEADER_SIZE; a block of at most
\* MAX_HEADER_SIZE bytes is read.
C19_BudgetIsCumulative ==
    (frameStart = 0 /\ phase # "idle" /\ C19_ShortLines(C19_Lines))
        => C19_FailsIffOver(Memchr(EOL, data), C19_BlockSize(C19_Lines, Len(C19_Lines)))

\* read_from has failed with the size-exceeded error on a block of two lines
\* that is one byte longer than MAX_HEADER_SIZE
C19_Witness ==
    /\ frameStart = 0
    /\ phase = "failed"
    /\ err = SizeExceeded
    /\ Len(C19_Lines) = 2
    /\ C19_ShortLines(C19_Lines)
    /\ C19_BlockSize(C19_Lines, 2) = MAX_HEADER_SIZE + 1

----------------------------------------------------------------------------
(* SpecBody: a Body constructed directly over a source, then read and dropped *)

BodyBytes == {NULL, ByteA, ByteB}

InitBody ==
    /\ data \in SeqsUpTo(BodyBytes, MaxSrc)
    /\ pos = 0
    /\ cap \in 0..MaxCap
    /\ \/ mode = "scan" /\ given = 0                \* Body::new
       \/ mode = "length" /\ given \in 0..MaxLen    \* Body::with_length
    /\ limit = given
    /\ done = FALSE
    /\ out = << >>
    /\ eos = FALSE
    /\ lastRet = -1
    /\ phase = "open"
    /\ command = ""
    /\ header = HeaderNew
    /\ err = NoError
    /\ frameStart = 0
    /\ bodyStart = 0
    /\ sink = << >>
    /\ ret = -1
    /\ wpc = "idle"
    /\ sent = NoFrame

NextBody ==
    \/ \E n \in 1..MaxBuf : BodyRead(n)
    \/ DropFrame

SpecBody == InitBody /\ [][NextBody]_vars

\* C2: a scan-bounded Body over a source holding a NUL has, at the first
\* end-of-stream, returned exactly the bytes before the first NUL and consumed
\* exactly those bytes and the NUL.
C2_ScanStopsAtNul ==
    (mode = "scan" /\ phase = "open" /\ Memchr(NULL, data) > 0 /\ eos)
        => /\ out = SubSeq(data, 1, Memchr(NULL, data) - 1)
           /\ pos = Memchr(NULL, data)

\* C3: a Body of declared length N over a source of at least N bytes has, at
\* end-of-stream, returned exactly the first N bytes of the source, and never
\* returns a byte located after them.
C3_LengthNeverOverReads ==
    (mode = "length" /\ Len(data) >= given)
        => /\ Len(out) <= given
           /\ out = SubSeq(data, 1, Len(out))
           /\ eos => out = SubSeq(data, 1, given)

----------------------------------------------------------------------------
(* SpecHeader: a Header built by add_field, set_field and remove_field, or  *)
(* parsed by Header::read_from, then serialized by Header::write_to         *)

MaxVals == 2        \* longest value list built under one key

HeaderKeys == {<<ByteB>>, <<ByteA, EOL>>, <<ByteA, COLON>>}     \* "b", "a\n", "a:"
HeaderValues == {<<ByteX>>, <<ByteA, COLON>>}                   \* "x", "a:"

\* header blocks handed to Header::read_from: "b:x\nb: a\n\n", "b:x\n:x\n\n", "b\n\n"
HeaderInputs ==
    {<<ByteB, COLON, ByteX, EOL, ByteB, COLON, SPACE, ByteA, EOL, EOL>>,
     <<ByteB, COLON, ByteX, EOL, COLON, ByteX, EOL, EOL>>,
     <<ByteB, EOL, EOL>>}

InitHeader ==
    /\ data \in HeaderInputs
    /\ pos = 0
    /\ cap = 0
    /\ mode = "none" /\ given = 0 /\ limit = 0 /\ done = FALSE
    /\ out = << >> /\ eos = FALSE /\ lastRet = -1 /\ bodyStart = 0
    /\ phase = "idle"
    /\ command = ""
    /\ header = HeaderNew
    /\ err = NoError
    /\ frameStart = 0
    /\ sink = << >>
    /\ ret = -1
    /\ wpc = "idle"
    /\ sent = NoFrame

\* a call of header.add_field(key, value)
AddField(key, value) ==
    /\ wpc \in {"idle", "header_written"}
    /\ GetField(header, key).some => Len(header[key]) < MaxVals
    /\ header' = AddFieldOp(header, key, value)
    /\ sink' = << >> /\ ret' = -1 /\ wpc' = "idle"
    /\ UNCHANGED <<streamVars, bodyVars, phase, command, err, frameStart, sent>>

\* a call of header.set_field(key, values)
SetField(key, values) ==
    /\ wpc \in {"idle", "header_written"}
    /\ header' = SetFieldOp(header, key, values)
    /\ sink' = << >> /\ ret' = -1 /\ wpc' = "idle"
    /\ UNCHANGED <<streamVars, bodyVars, phase, command, err, frameStart, sent>>

\* a call of header.remove_field(key)
RemoveField(key) ==
    /\ wpc \in {"idle", "header_written"}
    /\ header' = RemoveFieldOp(header, key)
    /\ sink' = << >> /\ ret' = -1 /\ wpc' = "idle"
    /\ UNCHANGED <<streamVars, bodyVars, phase, command, err, frameStart, sent>>

HeaderReadResult(r) ==
    /\ pos' = r.pos
    /\ header' = r.header
    /\ err' = r.err

\* a call of Header::read_from(&mut reader), the result replacing the header
HeaderRead ==
    /\ wpc \in {"idle", "header_written"}
    /\ pos = 0
    /\ HeaderReadResult(HeaderReadFrom(Stream, pos))
    /\ sink' = << >> /\ ret' = -1 /\ wpc' = "idle"
    /\ UNCHANGED <<data, cap, bodyVars, phase, command, frameStart, sent>>

\* a call of header.write_to(&mut buffer) on an empty Vec<u8>
HeaderWrite ==
    /\ wpc = "idle"
    /\ LET w == HeaderWriteOp(header)
       IN  /\ sink' = w.bytes
           /\ ret' = w.bytes_written
    /\ wpc' = "header_written"
    /\ UNCHANGED <<streamVars, bodyVars, frameVars, sent>>

NextHeader ==
    \/ \E k \in HeaderKeys, v \in HeaderValues : AddField(k, v)
    \/ \E k \in HeaderKeys, vs \in SeqsUpTo(HeaderValues, MaxVals) : SetField(k, vs)
    \/ \E k \in HeaderKeys : RemoveField(k)
    \/ HeaderRead
    \/ HeaderWrite

SpecHeader == InitHeader /\ [][NextHeader]_vars

\* the keys of h as the one strictly ascending sequence
AscendingKeys(h) ==
    CHOOSE s \in [1..Cardinality(DOMAIN h) -> DOMAIN h] :
        \A i, j \in 1..Cardinality(DOMAIN h) : i < j => LexLess(s[i], s[j])

RECURSIVE ConcatLines(_, _)
ConcatLines(h, ks) ==
    IF ks = << >> THEN << >>
    ELSE Encode(ks[1]) \o <<COLON, SPACE>> \o Encode(Join(h[ks[1]], COMMA)) \o <<EOL>>
         \o ConcatLines(h, Tail(ks))

CountByte(b, s) == Cardinality({i \in 1..Len(s) : s[i] = b})

\* C9: Header::write_to emits one line per key present, in ascending order
\* of key whatever calls built the header, each line being encode(name),
\* colon, space, encode(values joined by comma), LF; it returns the number of
\* bytes emitted.
C9_HeaderWriteSorted ==
    wpc = "header_written"
        => /\ sink = ConcatLines(header, AscendingKeys(header))
           /\ CountByte(EOL, sink) = Cardinality(DOMAIN header)
           /\ ret = Len(sink)

\* C9 witness: a header of three keys, one of them holding two values, whose
\* order by key differs from the order of the encoded names, has been written
C9_Witness ==
    /\ wpc = "header_written"
    /\ DOMAIN header = HeaderKeys
    /\ \E k \in DOMAIN header : Len(header[k]) = 2
    /\ LexLess(<<ByteA, EOL>>, <<ByteA, COLON>>)
    /\ LexLess(Encode(<<ByteA, COLON>>), Encode(<<ByteA, EOL>>))
    /\ sink # << >>

\* C10: every key present in a Header maps to a non-empty list of values;
\* get_field never returns a present but empty list.
C10_NoEmptyValueList ==
    \A k \in DOMAIN header : GetField(header, k).some => GetField(header, k).values # << >>

----------------------------------------------------------------------------
(* SpecWrite: a Frame is built with Frame::new and add_field, written with  *)
(* Frame::write_to, and the bytes written are read back with read_from      *)

CopyBuf == 2        \* size of the buffer stdio::copy reads the body into

WriteCommands == {"Connect", "Error"}
WriteKeys == {<<ByteB>>, ContentLength}             \* "b", "Content-Length"
WriteValues == {<<ByteX>>, <<49>>}                  \* "x", "1"
\* body sources: "", "a", "ab", "a\0b"
WriteSources == {<< >>, <<ByteA>>, <<ByteA, ByteB>>, <<ByteA, NULL, ByteB>>}
WriteLengths == {1, 3}                              \* arguments of Body::with_length

InitWrite ==
    /\ data \in WriteSources
    /\ pos = 0
    /\ cap \in {0, MaxCap}
    /\ \/ mode = "scan" /\ given = 0
       \/ mode = "length" /\ given \in WriteLengths
    /\ limit = given
    /\ done = FALSE
    /\ out = << >> /\ eos = FALSE /\ lastRet = -1 /\ bodyStart = 0
    /\ phase = "built"
    /\ command \in WriteCommands
    /\ header = HeaderNew
    /\ err = NoError
    /\ frameStart = 0
    /\ sink = << >>
    /\ ret = -1
    /\ wpc = "idle"
    /\ sent = NoFrame

\* a writer that leaves out the blank-line separator
WriteHeadOp_NoSeparator(c, h) ==
    [bytes |-> CommandToString(c) \o <<EOL>> \o HeaderWriteOp(h).bytes,
     bytes_written |-> Len(CommandToString(c)) + 1 + HeaderWriteOp(h).bytes_written]

\* Frame::write_to, lines 259-264: the command, EOL, the header block, EOL
\* go to the BufWriter; bytes_written adds up what each write returned
WriteHeadOp(c, h) ==
    [bytes |-> CommandToString(c) \o <<EOL>> \o HeaderWriteOp(h).bytes \o <<EOL>>,
     bytes_written |-> Len(CommandToString(c)) + 1 + HeaderWriteOp(h).bytes_written + 1]

WriteHeadResult(w) ==
    /\ sink' = w.bytes
    /\ ret' = w.bytes_written

WriteHead ==
    /\ phase = "built"
    /\ wpc = "idle"
    /\ WriteHeadResult(WriteHeadOp(command, header))
    /\ wpc' = "copy"
    /\ sent' = [command |-> command, header |-> header, body |-> << >>]
    /\ UNCHANGED <<streamVars, bodyVars, frameVars>>

CopyResult(r) ==
    /\ limit' = r.limit
    /\ done' = r.done
    /\ pos' = r.pos
    /\ out' = out \o r.got
    /\ lastRet' = Len(r.got)
    /\ eos' = (Len(r.got) = 0)
    /\ sink' = sink \o r.got
    /\ ret' = ret + Len(r.got)
    /\ wpc' = IF Len(r.got) = 0 THEN "copied" ELSE "copy"

\* Frame::write_to, line 265: one turn of the loop of stdio::copy, which
\* reads the Body into its buffer and writes what it got, until a read
\* returns 0
CopyStep ==
    /\ wpc = "copy"
    /\ CopyResult(BodyReadOp(Stream, pos, cap, limit, done, CopyBuf))
    /\ UNCHANGED <<data, cap, mode, bodyStart, given, frameVars, sent>>

\* Frame::write_to, lines 266-268: the NUL, the flush, the count returned
WriteEnd ==
    /\ wpc = "copied"
    /\ sink' = sink \o <<NULL>>
    /\ ret' = ret + 1
    /\ wpc' = "done"
    /\ sent' = [sent EXCEPT !.body = out]
    /\ UNCHANGED <<streamVars, bodyVars, frameVars>>

\* Frame::read_from over a Cursor on the bytes written
ReadBack ==
    /\ wpc = "done"
    /\ data' = sink
    /\ cap' = 0
    /\ frameStart' = 0
    /\ ReadFromResult(FrameReadFrom(sink, 0))
    /\ done' = FALSE /\ out' = << >> /\ eos' = FALSE /\ lastRet' = -1
    /\ wpc' = "read_back"
    /\ UNCHANGED <<sink, ret, sent>>

NextWrite ==
    \/ \E k \in WriteKeys, v \in WriteValues : AddField(k, v)
    \/ WriteHead
    \/ CopyStep
    \/ WriteEnd
    \/ ReadBack
    \/ \E n \in 1..MaxBuf : BodyRead(n)

SpecWrite == InitWrite /\ [][NextWrite]_vars

\* the Content-Length of h, if present, is the one value Len(body) in digits
ClenMatches(h, body) ==
    ContentLength \in DOMAIN h => h[ContentLength] = <<(<<48 + Len(body)>>)>>

\* C4: the bytes write_to produced for a frame whose body holds no NUL and
\* whose Content-Length, if present, is the body length, are read back by
\* read_from as an equal Command, an equal Header and equal body bytes.
C4_RoundTrip ==
    (wpc = "read_back" /\ CountByte(NULL, sent.body) = 0 /\ ClenMatches(sent.header, sent.body))
        => /\ phase = "open"
           /\ command = sent.command
           /\ header = sent.header
           /\ eos => out = sent.body

----------------------------------------------------------------------------
(* SpecCommand: a string is parsed with Command::from_str, a Command is     *)
(* formatted with to_string, and the string it gave is parsed again         *)

\* the canonical strings, and strings that differ from one of them in the
\* case of the letters, by a trailing space, by a missing last letter or by
\* a doubled last letter; and the empty string
CommandTexts ==
    UNION {{CommandToString(c),
            ToLower(CommandToString(c)),
            <<CommandToString(c)[1]>> \o ToLower(Tail(CommandToString(c))),
            CommandToString(c) \o <<SPACE>>,
            SubSeq(CommandToString(c), 1, Len(CommandToString(c)) - 1),
            CommandToString(c) \o <<CommandToString(c)[Len(CommandToString(c))]>>} :
           c \in Commands} \cup {<< >>}

InitCommand ==
    /\ data \in CommandTexts
    /\ pos = 0
    /\ cap = 0
    /\ mode = "none" /\ given = 0 /\ limit = 0 /\ done = FALSE
    /\ out = << >> /\ eos = FALSE /\ lastRet = -1 /\ bodyStart = 0
    /\ phase = "idle"
    /\ command = ""
    /\ header = HeaderNew
    /\ err = NoError
    /\ frameStart = 0
    /\ sink = << >>
    /\ ret = -1
    /\ wpc = "idle"
    /\ sent = NoFrame

\* the Result r of Command::from_str: the Command, or the String of the Err
FromStrResult(r) ==
    /\ command' = IF r.ok THEN r.command ELSE ""
    /\ err' = IF r.ok THEN NoError ELSE [kind |-> "String", msg |-> r.command]
    /\ phase' = "parsed"

\* Command::from_str(s) for the string s held in data
FromStr ==
    /\ phase = "idle"
    /\ FromStrResult(CommandFromStr(data))
    /\ UNCHANGED <<streamVars, bodyVars, header, frameStart, writeVars>>

\* impl fmt::Display for Command, c.to_string(): the string is kept in sink
Display(c) ==
    /\ wpc = "idle"
    /\ sink' = CommandToString(c)
    /\ sent' = [NoFrame EXCEPT !.command = c]
    /\ wpc' = "formatted"
    /\ UNCHANGED <<streamVars, bodyVars, frameVars, ret>>

\* Command::from_str(&c.to_string())
FromStrOfString ==
    /\ wpc = "formatted"
    /\ data' = sink
    /\ FromStrResult(CommandFromStr(sink))
    /\ wpc' = "parsed_back"
    /\ UNCHANGED <<pos, cap, bodyVars, header, frameStart, sink, ret, sent>>

NextCommand ==
    \/ FromStr
    \/ \E c \in Commands : Display(c)
    \/ FromStrOfString

SpecCommand == InitCommand /\ [][NextCommand]_vars

\* C11: parsing the string of a variant gives that variant back; the strings
\* of two different variants differ; and a parse succeeds only on a string
\* that is, byte for byte, the canonical string of the variant it returns.
C11_CommandInverse ==
    /\ wpc = "parsed_back" => (err = NoError /\ command = sent.command)
    /\ \A c1, c2 \in Commands : c1 # c2 => CommandToString(c1) # CommandToString(c2)
    /\ (phase = "parsed" /\ err = NoError)
           => (command \in Commands /\ data = CommandToString(command))
    /\ Cardinality(Commands) = 15

\* a variant has been formatted and its string parsed back
C11_Witness ==
    /\ wpc = "parsed_back"
    /\ sent.command = "Unsubscribe"
    /\ command = "Unsubscribe"
    /\ data = CommandToString("Unsubscribe")

\* a string that is not canonical has been refused
C11_Refused ==
    /\ phase = "parsed"
    /\ data = ToLower(CommandToString("Send"))
    /\ err = [kind |-> "String", msg |-> "invalid command"]

====
